---- MODULE Spec2Model ----
(***************************************************************************)
(* Model of src/anexos_simples.py: bracket lookup by RBT12, annex          *)
(* resolution by CNAE (with the Fator R rule) and nominal-rate lookup.     *)
(*                                                                         *)
(* Money amounts (rbt12, folha_12m, the limits of FAIXAS) are integers     *)
(* counting half-cents, 1/200 of the currency unit, so that a value such   *)
(* as 180000.005, which lies strictly between two cent values, is          *)
(* representable.  Rates are integers counting thousandths (0.112 is 112). *)
(* An Optional value is a sequence: None is <<>> and a present value v is  *)
(* <<v>>.  A function that can raise returns a record whose field erro     *)
(* names the exception ("none" when it returns normally).                  *)
(***************************************************************************)
EXTENDS Integers, Sequences, FiniteSets, TLC

VARIABLES obj, tabela, carga, pc, op, cnae, rbt12, folha_12m, anexo_forcado,
          anexo, faixa, aliq, erro, res, chamadas

vars == <<obj, tabela, carga, pc, op, cnae, rbt12, folha_12m, anexo_forcado,
          anexo, faixa, aliq, erro, res, chamadas>>

----------------------------------------------------------------------------
(* Bounds of the model *)

MaxRecords == 2

----------------------------------------------------------------------------
(* Optional values and exceptions *)

None == <<>>

Some(v) == <<v>>

NoError == "none"

\* ValueError raised by faixa_por_rbt12 (OutOfRange in the specification)
OutOfRange == "ValueError: RBT12 fora do limite do Simples"

\* KeyError raised by resolver_anexo_por_cnae (NotFound)
NotFound == "KeyError: CNAE nao encontrado na tabela"

\* KeyError raised by aliquota_nominal_por_anexo (LookupError)
LookupError == "KeyError: Aliquota nao encontrada"

\* IndexError raised by info.anexos[0] on an empty list
IndexError == "IndexError: list index out of range"

\* KeyError raised by item["cnae"] while the table is built
MissingCnae == "KeyError: cnae"

----------------------------------------------------------------------------
(* Constants of the program *)

Anexos == {"I", "II", "III", "IV", "V"}

\* (faixa, ini, fim) in half-cents: 180_000.01 is 36000002, and so on
FAIXAS ==
  << <<1, 0, 36000000>>,
     <<2, 36000002, 72000000>>,
     <<3, 72000002, 144000000>>,
     <<4, 144000002, 360000000>>,
     <<5, 360000002, 720000000>>,
     <<6, 720000002, 960000000>> >>

\* A variant of the rate table with one pair missing and one rate of 100%
ALIQUOTAS_NOMINAIS_incompleta ==
  [a \in Anexos |->
     CASE a = "I"   -> <<40, 73, 95, 107, 143, 190>>
       [] a = "II"  -> <<45, 78, 100, 112, 147>>
       [] a = "III" -> <<60, 112, 135, 160, 210, 1000>>
       [] a = "IV"  -> <<45, 90, 102, 140, 220, 330>>
       [] a = "V"   -> <<155, 180, 195, 205, 230, 305>>]

\* anexo -> faixa -> nominal rate in thousandths
ALIQUOTAS_NOMINAIS ==
  [a \in Anexos |->
     CASE a = "I"   -> <<40, 73, 95, 107, 143, 190>>
       [] a = "II"  -> <<45, 78, 100, 112, 147, 300>>
       [] a = "III" -> <<60, 112, 135, 160, 210, 330>>
       [] a = "IV"  -> <<45, 90, 102, 140, 220, 330>>
       [] a = "V"   -> <<155, 180, 195, 205, 230, 305>>]

----------------------------------------------------------------------------
(* carregar_tabela_cnae *)

\* item.get(k, default)
get(item, k, default) == IF k \in DOMAIN item THEN item[k] ELSE default

\* bool(v) of a JSON value, written as its JSON text
bool(v) == v \notin {"false", "0", "null", "\"\""}

CNAEInfo(item) ==
  [cnae      |-> item["cnae"],
   descricao |-> get(item, "descricao", ""),
   anexos    |-> get(item, "anexos", <<>>),
   fator_r   |-> bool(get(item, "fator_r", "false")),
   natureza  |-> get(item, "natureza", "servicos")]

\* A dictionary store that keeps an existing entry
dict_setdefault(d, k, v) ==
  [x \in DOMAIN d \cup {k} |-> IF x \in DOMAIN d THEN d[x] ELSE v]

\* tabela[k] = v
dict_set(d, k, v) ==
  [x \in DOMAIN d \cup {k} |-> IF x = k THEN v ELSE d[x]]

RECURSIVE carregar_de(_, _, _)
\* the loop of carregar_tabela_cnae from item i on, with the table so far
carregar_de(o, i, tab) ==
  IF i > Len(o) THEN [erro |-> NoError, tabela |-> tab]
  ELSE IF "cnae" \notin DOMAIN o[i] THEN [erro |-> MissingCnae, tabela |-> tab]
  ELSE carregar_de(o, i + 1, dict_set(tab, o[i]["cnae"], CNAEInfo(o[i])))

carregar_tabela_cnae(o) == carregar_de(o, 1, <<>>)

----------------------------------------------------------------------------
(* faixa_por_rbt12 *)

RECURSIVE faixa_de(_, _)
\* the scan of FAIXAS from entry i on
faixa_de(r, i) ==
  IF i > Len(FAIXAS) THEN [erro |-> OutOfRange, faixa |-> 0]
  ELSE IF FAIXAS[i][2] <= r /\ r <= FAIXAS[i][3]
       THEN [erro |-> NoError, faixa |-> FAIXAS[i][1]]
       ELSE faixa_de(r, i + 1)

faixa_por_rbt12(r) == faixa_de(r, 1)

----------------------------------------------------------------------------
(* resolver_anexo_por_cnae *)

\* set(info.anexos)
set(s) == {s[i] : i \in DOMAIN s}

\* A comparison that is strict at exactly 0.28
fator_r_gt_028(folha, r) ==
  LET a == folha \div 7
      b == folha % 7
      c == r \div 25
      d == r % 25
  IN  IF a > c THEN TRUE
      ELSE IF a < c THEN FALSE
      ELSE 25 * b > 7 * d

\* (folha / rbt12) >= 0.28 for rbt12 > 0, evaluated exactly and without
\* products beyond 32 bits: with folha = 7a + b and rbt12 = 25c + d,
\* 25*folha >= 7*rbt12 iff 175(a - c) >= 7d - 25b, and -150 <= 7d - 25b <= 168.
\* The IEEE-754 quotient compared with the double 0.28 gives the same answer:
\* the double 0.28 is the double nearest to 28/100, and a quotient of two
\* doubles that is below 28/100 is below it by more than the distance from
\* 28/100 to the rounding midpoint under the double 0.28.
fator_r_ge_028(folha, r) ==
  LET a == folha \div 7
      b == folha % 7
      c == r \div 25
      d == r % 25
  IN  IF a > c THEN TRUE
      ELSE IF a < c THEN FALSE
      ELSE 25 * b >= 7 * d

\* The Fator R branch: the body of the III/V case
anexo_fator_r(folha, r) ==
  IF folha = None \/ r <= 0 THEN "V"
  ELSE IF fator_r_ge_028(folha[1], r) THEN "III" ELSE "V"

\* A default that takes the last candidate instead of the first
anexo_padrao_ultimo(info) ==
  IF Len(info.anexos) = 0 THEN [erro |-> IndexError, anexo |-> ""]
  ELSE [erro |-> NoError, anexo |-> info.anexos[Len(info.anexos)]]

\* return info.anexos[0], the final default
anexo_padrao(info) ==
  IF Len(info.anexos) = 0 THEN [erro |-> IndexError, anexo |-> ""]
  ELSE [erro |-> NoError, anexo |-> info.anexos[1]]

\* the part of resolver_anexo_por_cnae after the table lookup succeeded
resolver_por_info(info, r, folha) ==
  IF Len(info.anexos) = 1 THEN [erro |-> NoError, anexo |-> info.anexos[1]]
  ELSE IF set(info.anexos) = {"III", "V"} /\ info.fator_r
       THEN [erro |-> NoError, anexo |-> anexo_fator_r(folha, r)]
       ELSE anexo_padrao(info)

\* A resolver that looks the code up before it honours the override
resolver_consulta_primeiro(c, r, folha, tab, forcado) ==
  IF c \notin DOMAIN tab THEN [erro |-> NotFound, anexo |-> ""]
  ELSE IF forcado # None /\ forcado[1] # ""
       THEN [erro |-> NoError, anexo |-> forcado[1]]
       ELSE resolver_por_info(tab[c], r, folha)

resolver_anexo_por_cnae(c, r, folha, tab, forcado) ==
  IF forcado # None /\ forcado[1] # ""
  THEN [erro |-> NoError, anexo |-> forcado[1]]
  ELSE IF c \notin DOMAIN tab THEN [erro |-> NotFound, anexo |-> ""]
       ELSE resolver_por_info(tab[c], r, folha)

----------------------------------------------------------------------------
(* aliquota_nominal_por_anexo *)

aliquota_nominal_por_anexo(a, r) ==
  LET fx == faixa_por_rbt12(r)
  IN  IF fx.erro # NoError THEN [erro |-> fx.erro, faixa |-> 0, aliq |-> -1]
      ELSE IF a \in DOMAIN ALIQUOTAS_NOMINAIS
              /\ fx.faixa \in DOMAIN ALIQUOTAS_NOMINAIS[a]
           THEN [erro |-> NoError, faixa |-> fx.faixa,
                 aliq |-> ALIQUOTAS_NOMINAIS[a][fx.faixa]]
           ELSE [erro |-> LookupError, faixa |-> 0, aliq |-> -1]

----------------------------------------------------------------------------
(* obter_aliquota_por_cnae *)

\* A result record that reports the bracket of the next tier
resultado_faixa_errada(a, f, q, r) ==
  [anexo |-> a,
   faixa |-> IF f < 6 THEN f + 1 ELSE 1,
   aliquota_nominal |-> q,
   aliquota_nominal_pct |-> q * 100,
   rbt12 |-> r,
   faturamento_mensal_medio |-> [num |-> r, den |-> 12]]

\* the dictionary returned; aliquota_nominal_pct is in thousandths of a
\* percent and faturamento_mensal_medio is the exact quotient rbt12 / 12
resultado(a, f, q, r) ==
  [anexo |-> a,
   faixa |-> f,
   aliquota_nominal |-> q,
   aliquota_nominal_pct |-> q * 100,
   rbt12 |-> r,
   faturamento_mensal_medio |-> [num |-> r, den |-> 12]]

----------------------------------------------------------------------------
(* Inputs *)

SeqsUpTo(S, n) == UNION {[1..k -> S] : k \in 0..n}

\* a field of a raw record, present or absent
Campo(k, opt) == IF opt = None THEN <<>> ELSE (k :> opt[1])

\* a raw record (a parsed JSON object) with the fields that are present
Item(c, a, f, d, n) ==
  Campo("cnae", c) @@ Campo("anexos", a) @@ Campo("fator_r", f)
    @@ Campo("descricao", d) @@ Campo("natureza", n)

CnaeA == "62.01-5-01"

CnaeB == "47.51-2-01"

\* Raw records given to the loader before the resolvers are exercised: one
\* code with every shape of candidate list and of flag, a second code fixed
\* in Anexo I, and a record without its code
ItensResolver ==
  { Item(Some(CnaeA), a, f, None, None) :
      a \in {None, Some(<<"IV">>), Some(<<"III", "V">>), Some(<<"V", "III">>),
             Some(<<"I", "II">>)},
      f \in {None, Some("true"), Some("0")} }
  \cup { Item(Some(CnaeB), Some(<<"I">>), None, None, Some("comercio")),
         Item(None, Some(<<"I">>), None, None, None) }

\* Raw records for the loader on its own: every field present or absent
ItensCarga ==
  { Item(c, a, f, d, n) :
      c \in {None, Some(CnaeA), Some(CnaeB)},
      a \in {None, Some(<<"III", "V">>), Some(<<"V", "III">>)},
      f \in {None, Some("true")},
      d \in {None, Some("Desenvolvimento de programas")},
      n \in {None, Some("comercio")} }

\* Revenues in half-cents: below zero, zero, both ends of every bracket and
\* the value between them, 500000, 600000, 1200000, and above the ceiling
Receitas ==
  { -1, 0, 36000000, 36000001, 36000002, 72000000, 72000001, 72000002,
    100000000, 120000000, 144000000, 144000001, 144000002, 240000000,
    360000000, 360000001, 360000002, 720000000, 720000001, 720000002,
    960000000, 960000001 }

\* Payrolls in half-cents: absent, zero, 0.2799 and 0.28 of 600000 and the
\* half-cent under it, 200000 and 100000
Folhas ==
  { None, Some(0), Some(33588000), Some(33599999), Some(33600000),
    Some(40000000), Some(20000000) }

\* Overrides: absent, a valid annex, a tag outside the five
Forcados == { None, Some("II"), Some("VI") }

----------------------------------------------------------------------------
(* The state machine *)

\* no table yet, no call in progress
InitCommon ==
  /\ tabela = <<>>
  /\ carga = "pendente"
  /\ pc = "idle"
  /\ op = "none"
  /\ cnae = ""
  /\ rbt12 = 0
  /\ folha_12m = None
  /\ anexo_forcado = None
  /\ anexo = ""
  /\ faixa = 0
  /\ aliq = -1
  /\ erro = NoError
  /\ res = None
  /\ chamadas = <<>>

Init == obj = <<>> /\ InitCommon

\* tabela = carregar_tabela_cnae(o), once, before any resolution
CarregarCom(o) ==
  /\ carga = "pendente"
  /\ LET r == carregar_tabela_cnae(o)
     IN  IF r.erro = NoError
         THEN tabela' = r.tabela /\ carga' = "ok"
         ELSE tabela' = tabela /\ carga' = "falhou"
  /\ UNCHANGED <<obj, pc, op, cnae, rbt12, folha_12m, anexo_forcado, anexo,
                 faixa, aliq, erro, res, chamadas>>

Carregar == \E o \in SeqsUpTo(ItensResolver, MaxRecords) : CarregarCom(o)

\* a direct call of faixa_por_rbt12
ChamarFaixa ==
  /\ carga = "ok" /\ pc = "idle"
  /\ \E r \in Receitas :
       LET fx == faixa_por_rbt12(r)
       IN  /\ rbt12' = r
           /\ faixa' = fx.faixa
           /\ erro' = fx.erro
  /\ op' = "faixa_por_rbt12"
  /\ pc' = "done"
  /\ chamadas' = <<"faixa_por_rbt12">>
  /\ UNCHANGED <<obj, tabela, carga, cnae, folha_12m, anexo_forcado, anexo,
                 aliq, res>>

\* a direct call of resolver_anexo_por_cnae
ChamarResolver ==
  /\ carga = "ok" /\ pc = "idle"
  /\ \E c \in {CnaeA, CnaeB}, r \in Receitas, f \in Folhas, o \in Forcados :
       LET ra == resolver_anexo_por_cnae(c, r, f, tabela, o)
       IN  /\ cnae' = c
           /\ rbt12' = r
           /\ folha_12m' = f
           /\ anexo_forcado' = o
           /\ anexo' = ra.anexo
           /\ erro' = ra.erro
  /\ op' = "resolver_anexo_por_cnae"
  /\ pc' = "done"
  /\ chamadas' = <<"resolver_anexo_por_cnae">>
  /\ UNCHANGED <<obj, tabela, carga, faixa, aliq, res>>

\* a direct call of aliquota_nominal_por_anexo; the annex given is in anexo
ChamarAliquotaNominal ==
  /\ carga = "ok" /\ pc = "idle"
  /\ \E a \in Anexos \cup {"VI"}, r \in Receitas :
       LET an == aliquota_nominal_por_anexo(a, r)
       IN  /\ anexo' = a
           /\ rbt12' = r
           /\ faixa' = an.faixa
           /\ aliq' = an.aliq
           /\ erro' = an.erro
  /\ op' = "aliquota_nominal_por_anexo"
  /\ pc' = "done"
  /\ chamadas' = <<"aliquota_nominal_por_anexo", "faixa_por_rbt12">>
  /\ UNCHANGED <<obj, tabela, carga, cnae, folha_12m, anexo_forcado, res>>

\* obter_aliquota_por_cnae is entered with its arguments
ObterChamar ==
  /\ carga = "ok" /\ pc = "idle"
  /\ \E c \in {CnaeA, CnaeB}, r \in Receitas, f \in Folhas, o \in Forcados :
       /\ cnae' = c
       /\ rbt12' = r
       /\ folha_12m' = f
       /\ anexo_forcado' = o
  /\ op' = "obter_aliquota_por_cnae"
  /\ pc' = "resolver"
  /\ UNCHANGED <<obj, tabela, carga, anexo, faixa, aliq, erro, res, chamadas>>

\* A first statement that resolves the bracket before the annex
ObterResolverFaixaPrimeiro ==
  /\ pc = "resolver"
  /\ LET fx == faixa_por_rbt12(rbt12)
         ra == resolver_anexo_por_cnae(cnae, rbt12, folha_12m, tabela,
                                       anexo_forcado)
     IN  IF fx.erro # NoError
         THEN /\ erro' = fx.erro
              /\ anexo' = anexo
              /\ pc' = "done"
              /\ chamadas' = Append(chamadas, "faixa_por_rbt12")
         ELSE /\ erro' = ra.erro
              /\ anexo' = ra.anexo
              /\ pc' = IF ra.erro = NoError THEN "aliquota" ELSE "done"
              /\ chamadas' = chamadas \o <<"faixa_por_rbt12",
                                           "resolver_anexo_por_cnae">>
  /\ UNCHANGED <<obj, tabela, carga, op, cnae, rbt12, folha_12m,
                 anexo_forcado, faixa, aliq, res>>

\* anexo = resolver_anexo_por_cnae(...): an exception ends the call
ObterResolver ==
  /\ pc = "resolver"
  /\ LET ra == resolver_anexo_por_cnae(cnae, rbt12, folha_12m, tabela,
                                       anexo_forcado)
     IN  /\ erro' = ra.erro
         /\ anexo' = ra.anexo
         /\ pc' = IF ra.erro = NoError THEN "aliquota" ELSE "done"
  /\ chamadas' = Append(chamadas, "resolver_anexo_por_cnae")
  /\ UNCHANGED <<obj, tabela, carga, op, cnae, rbt12, folha_12m,
                 anexo_forcado, faixa, aliq, res>>

\* faixa, aliq_nom = aliquota_nominal_por_anexo(anexo, rbt12) and the return
ObterAliquota ==
  /\ pc = "aliquota"
  /\ LET an == aliquota_nominal_por_anexo(anexo, rbt12)
     IN  /\ erro' = an.erro
         /\ faixa' = an.faixa
         /\ aliq' = an.aliq
         /\ res' = IF an.erro = NoError
                   THEN Some(resultado(anexo, an.faixa, an.aliq, rbt12))
                   ELSE None
  /\ pc' = "done"
  /\ chamadas' = chamadas \o <<"aliquota_nominal_por_anexo", "faixa_por_rbt12">>
  /\ UNCHANGED <<obj, tabela, carga, op, cnae, rbt12, folha_12m,
                 anexo_forcado, anexo>>

\* the caller takes the outcome; the next call starts afresh
Retornar ==
  /\ pc = "done"
  /\ pc' = "idle"
  /\ op' = "none"
  /\ cnae' = ""
  /\ rbt12' = 0
  /\ folha_12m' = None
  /\ anexo_forcado' = None
  /\ anexo' = ""
  /\ faixa' = 0
  /\ aliq' = -1
  /\ erro' = NoError
  /\ res' = None
  /\ chamadas' = <<>>
  /\ UNCHANGED <<obj, tabela, carga>>

Next ==
  \/ Carregar
  \/ ChamarFaixa
  \/ ChamarResolver
  \/ ChamarAliquotaNominal
  \/ ObterChamar
  \/ ObterResolver
  \/ ObterAliquota
  \/ Retornar

Spec == Init /\ [][Next]_vars

\* The loader on its own: the input sequence is part of the state
InitCarga == obj \in SeqsUpTo(ItensCarga, MaxRecords) /\ InitCommon

CarregarEntrada == CarregarCom(obj)

NextCarga == CarregarEntrada

SpecCarga == InitCarga /\ [][NextCarga]_vars

----------------------------------------------------------------------------
(* Properties *)

FaixaFeita == op = "faixa_por_rbt12" /\ pc = "done"

ResolverFeito == op = "resolver_anexo_por_cnae" /\ pc = "done"

NominalFeita == op = "aliquota_nominal_por_anexo" /\ pc = "done"

ObterFeito == op = "obter_aliquota_por_cnae" /\ pc = "done"

\* the record of the code asked for is the Fator R case
CasoFatorR ==
  /\ cnae \in DOMAIN tabela
  /\ set(tabela[cnae].anexos) = {"III", "V"}
  /\ tabela[cnae].fator_r

\* the least payroll whose ratio to revenue r > 0 is at least 28/100:
\* the ceiling of 7r/25
Limiar028(r) == 7 * (r \div 25) + (7 * (r % 25) + 24) \div 25

\* C1: for every revenue in [0, 4800000], faixa_por_rbt12 returns exactly one
\* bracket in 1..6: the intervals cover the closed domain with no gap and no
\* overlap, and each boundary pair resolves to the lower and the upper bracket.
C1_FaixaParticiona ==
  (FaixaFeita /\ 0 <= rbt12 /\ rbt12 <= 960000000) =>
     /\ erro = NoError
     /\ faixa \in 1..6
     /\ Cardinality({i \in DOMAIN FAIXAS :
                      FAIXAS[i][2] <= rbt12 /\ rbt12 <= FAIXAS[i][3]}) = 1
     /\ (rbt12 = 36000000 => faixa = 1) /\ (rbt12 = 36000002 => faixa = 2)
     /\ (rbt12 = 72000000 => faixa = 2) /\ (rbt12 = 72000002 => faixa = 3)
     /\ (rbt12 = 144000000 => faixa = 3) /\ (rbt12 = 144000002 => faixa = 4)
     /\ (rbt12 = 360000000 => faixa = 4) /\ (rbt12 = 360000002 => faixa = 5)
     /\ (rbt12 = 720000000 => faixa = 5) /\ (rbt12 = 720000002 => faixa = 6)

\* C2: faixa_por_rbt12 fails with OutOfRange, returning no bracket, for every
\* revenue below 0 or above 4800000, and for no revenue inside [0, 4800000].
C2_ForaDoLimiteSse ==
  FaixaFeita =>
     /\ (erro = OutOfRange <=> (rbt12 < 0 \/ rbt12 > 960000000))
     /\ (erro = OutOfRange => faixa = 0)

\* C3: without override, on a record whose candidate set is {III, V} with the
\* flag true: payroll absent or revenue <= 0 gives "V" and no error; otherwise
\* "III" exactly when payroll/revenue >= 0.28 and "V" exactly when it is less.
C3_FatorR ==
  (ResolverFeito /\ anexo_forcado = None /\ CasoFatorR) =>
     /\ erro = NoError
     /\ IF folha_12m = None \/ rbt12 <= 0
        THEN anexo = "V"
        ELSE /\ (anexo = "III" <=> folha_12m[1] >= Limiar028(rbt12))
             /\ (anexo = "V" <=> folha_12m[1] < Limiar028(rbt12))

\* the ratio is exactly 0.28 and the annex is III
C3_Witness ==
  /\ ResolverFeito /\ anexo_forcado = None /\ CasoFatorR
  /\ rbt12 = 120000000 /\ folha_12m = Some(33600000)
  /\ anexo = "III"

\* C4: with an override, resolver_anexo_por_cnae returns the override for
\* every code, revenue, payroll and table, also for a code not in the table.
C4_ForcadoVence ==
  (ResolverFeito /\ anexo_forcado # None) =>
     erro = NoError /\ anexo = anexo_forcado[1]

\* the code is not in the table and the override is returned
C4_Witness ==
  /\ ResolverFeito /\ anexo_forcado = Some("II")
  /\ cnae \notin DOMAIN tabela
  /\ anexo = "II" /\ erro = NoError

\* C5: obter_aliquota_por_cnae either returns a complete result or fails with
\* exactly one of OutOfRange, NotFound or LookupError, on every table the
\* loader builds (records without a candidate list included).
C5_SoTresErros ==
  ObterFeito =>
     \/ /\ erro = NoError
        /\ Len(res) = 1
        /\ DOMAIN res[1] = {"anexo", "faixa", "aliquota_nominal",
                            "aliquota_nominal_pct", "rbt12",
                            "faturamento_mensal_medio"}
     \/ /\ erro \in {OutOfRange, NotFound, LookupError}
        /\ res = None

\* C6: without override, on a code in the table whose candidate list is not
\* empty and is not the Fator R case, the result is the first candidate in
\* stored order, for every revenue and payroll.
C6_PrimeiroAnexo ==
  (/\ ResolverFeito /\ anexo_forcado = None
   /\ cnae \in DOMAIN tabela
   /\ Len(tabela[cnae].anexos) >= 1
   /\ ~CasoFatorR) =>
     erro = NoError /\ anexo = tabela[cnae].anexos[1]

\* two candidates, not the Fator R case, a payroll given: the first is taken
C6_Witness ==
  /\ ResolverFeito /\ anexo_forcado = None
  /\ cnae \in DOMAIN tabela
  /\ tabela[cnae].anexos = <<"V", "III">>
  /\ ~tabela[cnae].fator_r
  /\ folha_12m = Some(40000000) /\ rbt12 = 120000000
  /\ anexo = "V"

\* C7: every one of the 5 x 6 pairs of ALIQUOTAS_NOMINAIS has a rate r with
\* 0 <= r < 1, so aliquota_nominal_por_anexo never fails with LookupError for
\* a valid annex and a revenue in [0, 4800000].
C7_TabelaCompleta ==
  /\ \A a \in {"I", "II", "III", "IV", "V"} : \A f \in 1..6 :
        /\ a \in DOMAIN ALIQUOTAS_NOMINAIS
        /\ f \in DOMAIN ALIQUOTAS_NOMINAIS[a]
        /\ ALIQUOTAS_NOMINAIS[a][f] >= 0
        /\ ALIQUOTAS_NOMINAIS[a][f] < 1000
  /\ (/\ NominalFeita
      /\ anexo \in {"I", "II", "III", "IV", "V"}
      /\ 0 <= rbt12 /\ rbt12 <= 960000000) =>
        /\ erro # LookupError
        /\ erro = NoError => (aliq >= 0 /\ aliq < 1000)

\* the last pair of the table is looked up
C7_Witness ==
  /\ NominalFeita /\ anexo = "II" /\ rbt12 = 960000000
  /\ erro = NoError /\ faixa = 6 /\ aliq = 300

\* the index of the last record of obj that carries code c
Ultimo(c) ==
  CHOOSE i \in DOMAIN obj :
    /\ obj[i]["cnae"] = c
    /\ \A j \in DOMAIN obj : (j > i) => obj[j]["cnae"] # c

\* C8: the built table has exactly one entry per distinct code of the input,
\* holding the description, candidate list, flag and classification of the
\* last record with that code (defaults where that record lacks the field).
C8_UltimoVence ==
  (carga = "ok") =>
     /\ DOMAIN tabela = {obj[i]["cnae"] : i \in DOMAIN obj}
     /\ \A c \in DOMAIN tabela :
          LET it == obj[Ultimo(c)]
          IN  /\ tabela[c].cnae = c
              /\ tabela[c].descricao =
                   (IF "descricao" \in DOMAIN it THEN it["descricao"] ELSE "")
              /\ tabela[c].anexos =
                   (IF "anexos" \in DOMAIN it THEN it["anexos"] ELSE <<>>)
              /\ tabela[c].fator_r =
                   ("fator_r" \in DOMAIN it /\ it["fator_r"] = "true")
              /\ tabela[c].natureza =
                   (IF "natureza" \in DOMAIN it THEN it["natureza"]
                    ELSE "servicos")

\* two records of one code, the later one without the fields of the earlier
C8_Witness ==
  /\ carga = "ok" /\ Len(obj) = 2
  /\ obj[1]["cnae"] = obj[2]["cnae"]
  /\ DOMAIN obj[1] = {"cnae", "anexos", "fator_r", "descricao", "natureza"}
  /\ DOMAIN obj[2] = {"cnae"}
  /\ tabela[obj[2]["cnae"]].anexos = <<>>
  /\ ~tabela[obj[2]["cnae"]].fator_r

C10_AnexoAntesDaFaixa ==
  /\ ObterFeito =>
       /\ (anexo_forcado = None /\ cnae \notin DOMAIN tabela) =>
             /\ erro = NotFound
             /\ "faixa_por_rbt12" \notin set(chamadas)
       /\ (erro = OutOfRange) =>
             /\ (anexo_forcado # None \/ cnae \in DOMAIN tabela)
             /\ anexo # ""
             /\ chamadas[1] = "resolver_anexo_por_cnae"
  /\ (op = "obter_aliquota_por_cnae" /\ pc = "aliquota") =>
       erro = NoError /\ anexo # ""

\* code absent, revenue above the ceiling: NotFound, not OutOfRange
C10_Witness ==
  /\ ObterFeito /\ anexo_forcado = None
  /\ cnae \notin DOMAIN tabela
  /\ rbt12 = 960000001
  /\ erro = NotFound

====
